---- MODULE Spec2Model ----
(***************************************************************************)
(* A model of the VoiceHub schedule widget plugin (src/main.py):           *)
(*   - FetchThread.run, the fetch-with-retry worker;                        *)
(*   - Plugin, the poller with its timers, handlers and auto-scroll tick;   *)
(*   - SmoothScrollArea.set_songs and the row mapping it renders.           *)
(* Python dicts are records whose DOMAIN holds the keys that are present.   *)
(* Non-ASCII display strings of the source are written in ASCII here, the   *)
(* original given in the comment of each definition.                        *)
(***************************************************************************)
EXTENDS Integers, Sequences, FiniteSets, TLC

VARIABLES
    now,               \* wall clock: whole hours UTC since day 0, 00:00
    workers,           \* FetchThread objects ever started, in order of start
    sigQueue,          \* emitted signals queued to the main thread, FIFO
    scroll_position,   \* Plugin.scroll_position
    enable_scrolling,  \* Plugin.enable_scrolling
    retry_timer,       \* Plugin.retry_timer: [active, interval]
    update_timer,      \* Plugin.update_timer: [active, interval]
    test_widget,       \* Plugin.test_widget: result of the last get_widget
    uiQueue,           \* QTimer.singleShot(0, _update_ui ...) calls pending
    area,              \* the SmoothScrollArea mounted in the host widget
    poller,            \* which handler ran last, with what it was given
    executed           \* the host has called Plugin.execute

vars == <<now, workers, sigQueue, scroll_position, enable_scrolling,
          retry_timer, update_timer, test_widget, uiQueue, area, poller,
          executed>>

fetchVars == <<now, workers, sigQueue>>
pluginVars == <<scroll_position, enable_scrolling, retry_timer, update_timer,
                test_widget, uiQueue, area, poller, executed>>

-----------------------------------------------------------------------------
(* Bounds of the model. *)

\* longest response list / song list drawn as an input
MaxLen == 3
\* FetchThread workers started in one behaviour
MaxWorkers == 2
\* largest scrollbar maximum a rendered content may get in Spec
MaxScroll == 2
\* largest scrollbar maximum in the auto-scroll specification
MaxScrollLong == 50
\* largest scrollbar maximum in the wheel specification
MaxScrollWheel == 6
\* renders that may be pending when a slot is called in the tick specification
MaxPending == 1

(* Program constants. *)

\* FetchThread.max_retries
max_retries == 3
\* retry_timer.start(5 * 60 * 1000)
RetryIntervalMs == 300000
\* update_timer.start(30 * 60 * 1000)
UpdateIntervalMs == 1800000
\* timezone(timedelta(hours=8))
TzOffsetHours == 8
HoursPerDay == 24

-----------------------------------------------------------------------------
(* Helpers on sequences. *)

Range(s) == {s[i] : i \in DOMAIN s}

SeqsUpTo(S, n) == UNION {[1..k -> S] : k \in 0..n}

\* number of positions of s holding x
Count(s, x) == Cardinality({i \in DOMAIN s : s[i] = x})

\* s and t hold the same items the same number of times
SameItems(s, t) ==
    /\ Len(s) = Len(t)
    /\ \A x \in Range(s) \cup Range(t) : Count(s, x) = Count(t, x)

-----------------------------------------------------------------------------
(* FetchThread.run: one attempt of the retry loop, as a function of the     *)
(* response and of the clock.                                               *)

\* the date of the clock read in UTC, without the offset of 8 hours
UtcDate(clock) == clock \div HoursPerDay

\* datetime.now(timezone(timedelta(hours=8))).date()
Today(clock) == (clock + TzOffsetHours) \div HoursPerDay

\* only a missing key raises; a string that is no timestamp passes
RaisesOnMissingKeyOnly(item) == "playDate" \notin DOMAIN item

\* item['playDate'] raises KeyError when the key is missing;
\* datetime.fromisoformat(...replace('Z', '+00:00')) raises ValueError on a
\* string that is not ISO-8601; .date() keeps the date as written in the
\* string's own offset and drops the time of day.
PlayDateRaises(item) ==
    \/ "playDate" \notin DOMAIN item
    \/ item.playDate.form # "iso"

PlayDate(item) == item.playDate.d

\* x.get('sequence', 0)
SequenceKey(x) == IF "sequence" \in DOMAIN x THEN x.sequence ELSE 0

RECURSIVE InsertByKey(_, _)
InsertByKey(x, s) ==
    IF s = <<>> THEN <<x>>
    ELSE IF SequenceKey(x) <= SequenceKey(Head(s)) THEN <<x>> \o s
    ELSE <<Head(s)>> \o InsertByKey(x, Tail(s))

\* the list left in the order of the response
ReceivedOrder(s) == s

\* list.sort(key=lambda x: x.get('sequence', 0)): ascending and stable
RECURSIVE SortBySequence(_)
SortBySequence(s) ==
    IF s = <<>> THEN <<>>
    ELSE InsertByKey(Head(s), SortBySequence(Tail(s)))

\* lines 44-48: the items dated today, in the order of the response
TodaySongs(data, today) ==
    SelectSeq(data, LAMBDA item : PlayDate(item) = today)

\* the dates other than today, past dates included
OtherDates(data, today) ==
    {PlayDate(data[i]) : i \in {j \in DOMAIN data : PlayDate(data[j]) # today}}

\* lines 60-66: the keys of future_dates
FutureDates(data, today) ==
    {PlayDate(data[i]) : i \in {j \in DOMAIN data : PlayDate(data[j]) > today}}

\* the latest date of S
LatestDate(S) == CHOOSE d \in S : \A e \in S : e <= d

\* min(future_dates.keys())
MinDate(S) == CHOOSE d \in S : \A e \in S : d <= e

\* future_dates[date]
SongsOfDate(data, date) ==
    SelectSeq(data, LAMBDA item : PlayDate(item) = date)

NoSongs == <<>>
NoDate == -1

Raised == [out |-> "raise", songs |-> NoSongs, date |-> NoDate]
FellThrough == [out |-> "none", songs |-> NoSongs, date |-> NoDate]
Emit(songs, date) == [out |-> "emit", songs |-> songs, date |-> date]

\* lines 53-55: if today_songs: emit and return
EmitsToday(today_songs) == today_songs # <<>>

\* lines 68-76: the nearest-future-date branch
NearestBranch(data, today) ==
    IF FutureDates(data, today) # {}
    THEN LET nearest_date == MinDate(FutureDates(data, today))
             nearest_songs == SongsOfDate(data, nearest_date)
         IN  Emit(SortBySequence(nearest_songs), nearest_date)
    ELSE FellThrough

\* lines 34-81: the body of the while loop up to the emit or the fall-through
RunAttempt(resp, clock) ==
    IF resp.kind # "json" THEN Raised
    ELSE IF ~(resp.isList /\ resp.body # <<>>) THEN FellThrough
    ELSE LET data == resp.body
             today == Today(clock)
         IN  IF \E i \in DOMAIN data : PlayDateRaises(data[i]) THEN Raised
             ELSE LET today_songs == SortBySequence(TodaySongs(data, today))
                  IN  IF EmitsToday(today_songs)
                      THEN Emit(today_songs, today)
                      ELSE NearestBranch(data, today)

-----------------------------------------------------------------------------
(* The inputs: responses of the API and readings of the clock.             *)

\* "<d>T00:00:00.000Z" for a day number d, and a string that is no date
IsoDate(d) == [form |-> "iso", d |-> d, h |-> 0]
BadDate == [form |-> "bad", d |-> 0, h |-> 0]

Days == 0..3
SequenceValues == {1, 2}

\* items with a sequence for every day, and one without a sequence, dated
\* day 2 (today or the nearest future date, as the clock reads)
WellFormedItems ==
    [playDate : {IsoDate(d) : d \in Days}, sequence : SequenceValues]
        \cup {[playDate |-> IsoDate(2)]}

\* a playDate that is no date, and no playDate at all
MalformedItems == {[playDate |-> BadDate, sequence |-> 1], [sequence |-> 1]}

Items == WellFormedItems \cup MalformedItems

ErrorResponse(kind) == [kind |-> kind, isList |-> FALSE, body |-> <<>>]
\* requests.get raises, raise_for_status raises, response.json() raises
ErrorResponses == {ErrorResponse(k) : k \in {"transport", "status", "decode"}}
\* a JSON body that is no list
NotAList == [kind |-> "json", isList |-> FALSE, body |-> <<>>]
ListResponse(body) == [kind |-> "json", isList |-> TRUE, body |-> body]

\* the responses a worker run is checked on
Responses ==
    {ErrorResponse("transport"), NotAList}
        \cup {ListResponse(b) : b \in SeqsUpTo(Items, MaxLen)}

\* day 1, 10:00 UTC (18:00 of day 1 in UTC+8) and day 1, 17:00 UTC (01:00 of
\* day 2 in UTC+8)
ClockReadings == {34, 41}

-----------------------------------------------------------------------------
(* FetchThread: the worker as a process.                                    *)

NoResponse == ErrorResponse("unset")

\* what an attempt leaves in the log: the exception of logger.error (line 81),
\* or nothing but warnings when the attempt fell through to the retry
Logged(resp, r) ==
    IF r.out = "raise"
    THEN (IF resp.kind # "json" THEN resp.kind ELSE "parse")
    ELSE r.out

\* FetchThread() followed by start(): run() is about to test its loop
\* clock, resp and today are the datetime.now() reading, the response and the
\* date of the attempt in hand (the locals of run); hist is what the attempts
\* of the run have logged so far; emitted is the signals the thread has emitted
NewWorker ==
    [pc |-> "start", retry_count |-> 0, resp |-> NoResponse, clock |-> 0,
     today |-> NoDate, hist |-> <<>>, emitted |-> <<>>]

\* a signal on its way to the main thread: its arguments and the worker that
\* emitted it
Signal(sig, songs, date, w) ==
    [sig |-> sig, songs |-> songs, date |-> date, from |-> w]

\* a loop test that lets one more attempt through
LoopContinuesOnceMore(retry_count) == retry_count <= max_retries

\* line 33: while retry_count < self.max_retries
LoopContinues(retry_count) == retry_count < max_retries

\* line 33 (and line 86 when the loop ends): the test of the while loop, when
\* run starts and after each time.sleep(2)
WorkerLoop(w) ==
    /\ w \in DOMAIN workers
    /\ workers[w].pc \in {"start", "sleep"}
    /\ IF LoopContinues(workers[w].retry_count)
       THEN /\ workers' = [workers EXCEPT ![w].pc = "request",
                                          ![w].resp = NoResponse,
                                          ![w].clock = 0,
                                          ![w].today = NoDate]
            /\ UNCHANGED sigQueue
       ELSE /\ workers' = [workers EXCEPT ![w].pc = "done",
                                          ![w].emitted =
                                              Append(@, "fetch_failed")]
            /\ sigQueue' = Append(sigQueue,
                                  Signal("fetch_failed", NoSongs, NoDate, w))
    /\ UNCHANGED <<now, pluginVars>>

\* lines 34-84: one request, answered by a response of R, and what run does
\* with it: it emits fetch_finished and returns, or counts the attempt and
\* sleeps
WorkerAttempt(w, R) ==
    /\ w \in DOMAIN workers
    /\ workers[w].pc = "request"
    /\ \E resp \in R :
       LET r == RunAttempt(resp, now)
           seen == [workers EXCEPT ![w].resp = resp,
                                   ![w].clock = now,
                                   ![w].today = Today(now),
                                   ![w].hist = Append(@, Logged(resp, r))]
       IN  IF r.out = "emit"
           THEN /\ workers' = [seen EXCEPT ![w].pc = "done",
                                           ![w].emitted =
                                               Append(@, "fetch_finished")]
                /\ sigQueue' = Append(sigQueue,
                                 Signal("fetch_finished", r.songs, r.date, w))
           ELSE /\ workers' = [seen EXCEPT ![w].pc = "sleep",
                                           ![w].retry_count = @ + 1]
                /\ UNCHANGED sigQueue
    /\ UNCHANGED <<now, pluginVars>>

\* run returns (lines 55, 76 and the end of run): its locals are gone
WorkerExit(w) ==
    /\ w \in DOMAIN workers
    /\ workers[w].pc = "done"
    /\ workers' = [workers EXCEPT ![w] = [NewWorker EXCEPT
                                             !.pc = "finished",
                                             !.emitted = workers[w].emitted]]
    /\ UNCHANGED <<now, sigQueue, pluginVars>>

\* time passes
ClockTick ==
    /\ \E t \in ClockReadings : t > now /\ now' = t
    /\ UNCHANGED <<workers, sigQueue, pluginVars>>

-----------------------------------------------------------------------------
(* SmoothScrollArea: what set_songs builds.                                 *)

\* '未知艺术家', '未知歌曲', '未知'
UnknownArtist == "unknown-artist"
UnknownTitle == "unknown-title"
UnknownRequester == "unknown"
\* '正在加载中...' and '网络连接异常'
LoadingTitle == "loading..."
ErrorTitle == "network-error"

\* dict.get(key, default)
Get(d, key, default) == IF key \in DOMAIN d THEN d[key] ELSE default

EmptyDict == [k \in {} |-> 0]

\* song_item.get('song', {})
SongOf(song_item) == Get(song_item, "song", EmptyDict)

\* lines 212-223: f"{sequence}. {artist} - {title} - {requester} - 热度:{vote_count}"
\* ("heat:" stands for '热度:')
create_song_label(song_item, sequence) ==
    LET song == SongOf(song_item)
        artist == Get(song, "artist", UnknownArtist)
        title == Get(song, "title", UnknownTitle)
        requester == Get(song, "requester", UnknownRequester)
        vote_count == Get(song, "voteCount", 0)
    IN  ToString(sequence) \o ". " \o artist \o " - " \o title \o " - "
            \o requester \o " - heat:" \o ToString(vote_count)

\* the sequence field of the i-th song
OwnSequence(songs, i) == SequenceKey(songs[i])

\* the number create_songs_container hands to create_song_label for the i-th
\* song: for i, song_item in enumerate(songs, 1)
LabelNumber(songs, i) == i

\* lines 205-210: one label per song, in the order of the list
create_songs_container(songs) ==
    [i \in 1..Len(songs) |-> create_song_label(songs[i], LabelNumber(songs, i))]

\* lines 170-174: the copyright line is added for real songs only
ShowsCopyright(songs) ==
    /\ songs # <<>>
    /\ Get(SongOf(songs[1]), "title", "") \notin {LoadingTitle, ErrorTitle}

\* lines 352-360 and 364-372 ('系统' is "system", '5分钟后自动重试' is "retry-in-5-min")
loading_songs ==
    <<[sequence |-> 1, played |-> FALSE,
       song |-> [title |-> LoadingTitle, artist |-> "LaoShui",
                 requester |-> "system"]]>>
error_songs ==
    <<[sequence |-> 1, played |-> FALSE,
       song |-> [title |-> ErrorTitle, artist |-> "retry-in-5-min",
                 requester |-> "LaoShui"]]>>

\* "广播站排期 | LaoShui" and f"广播站排期 | {display_date.strftime('%Y/%m/%d')}"
DefaultTitle == "schedule | LaoShui"
DateTitle(display_date) == "schedule | day " \o ToString(display_date)

\* lines 317-320
WidgetTitle(display_date) ==
    IF display_date # NoDate THEN DateTitle(display_date) ELSE DefaultTitle

\* the widget before anything was rendered into its contentLayout
NoArea ==
    [present |-> FALSE, title |-> "", songs |-> <<>>, rows |-> <<>>,
     no_songs_label |-> FALSE, copyright |-> FALSE,
     maximum |-> 0, value |-> 0, aniEnd |-> 0, aniRunning |-> FALSE]

\* lines 141-187: a fresh scroll area showing songs; its scrollbar starts at 0
\* and gets the maximum the layout of the content gives it
set_songs(songs, title, maximum) ==
    [present |-> TRUE, title |-> title, songs |-> songs,
     rows |-> IF songs # <<>> THEN create_songs_container(songs) ELSE <<>>,
     no_songs_label |-> (songs = <<>>),
     copyright |-> ShowsCopyright(songs),
     maximum |-> maximum, value |-> 0, aniEnd |-> 0, aniRunning |-> FALSE]

\* lines 341-378
create_scroll_area(req, title, maximum) ==
    IF req.loading THEN set_songs(loading_songs, title, maximum)
    ELSE IF req.error THEN set_songs(error_songs, title, maximum)
    ELSE set_songs(req.songs, title, maximum)

-----------------------------------------------------------------------------
(* Plugin: the poller.                                                      *)

Request(songs, loading, error, display_date) ==
    [songs |-> songs, loading |-> loading, error |-> error,
     display_date |-> display_date]

LoadingRequest == Request(<<>>, TRUE, FALSE, NoDate)
ErrorRequest == Request(<<>>, FALSE, TRUE, NoDate)

TimerOff == [active |-> FALSE, interval |-> 0]

\* the render is scheduled whether or not the widget was found
ScheduleWithoutWidget(req, found) ==
    /\ test_widget' = IF found THEN "widget" ELSE "none"
    /\ uiQueue' = Append(uiQueue, req)

\* lines 297-305: get_widget finds the mount point or not; only when it does
\* is _update_ui scheduled
update_widget_content(req, found) ==
    /\ test_widget' = IF found THEN "widget" ELSE "none"
    /\ uiQueue' = IF found THEN Append(uiQueue, req) ELSE uiQueue

\* enable_scrolling left as it was
ScrollingKept == enable_scrolling

\* scrolling switched on
ScrollingOn == TRUE

\* what show_loading sets enable_scrolling to (line 271)
LoadingScrolling == FALSE
\* what handle_success sets enable_scrolling to (line 286)
SuccessScrolling(songs) == TRUE
\* what handle_failure sets enable_scrolling to (line 293)
FailureScrolling == FALSE

\* lines 269-272
show_loading(found) ==
    /\ enable_scrolling' = LoadingScrolling
    /\ update_widget_content(LoadingRequest, found)

\* QTimer.stop()
Stopped(timer) == [timer EXCEPT !.active = FALSE]
\* a start that leaves the timer as it was
LeftAsItWas(timer, msec) == timer

\* QTimer.start(msec)
Started(timer, msec) == [active |-> TRUE, interval |-> msec]

\* lines 274-282
update_songs(found) ==
    /\ Len(workers) < MaxWorkers
    /\ show_loading(found)
    /\ retry_timer' = Stopped(retry_timer)
    /\ workers' = Append(workers, NewWorker)
    /\ poller' = [state |-> "Loading", by |-> 0, entries |-> <<>>,
                  displayDate |-> NoDate]
    /\ UNCHANGED <<now, sigQueue, scroll_position, update_timer, area>>

\* The statements of update_songs one by one, on the fields they touch.
PollFields ==
    [enable_scrolling |-> enable_scrolling, test_widget |-> test_widget,
     uiQueue |-> uiQueue, retry_timer |-> retry_timer, workers |-> workers]

\* line 276: self.show_loading()
AfterShowLoading(s, found) ==
    [s EXCEPT !.enable_scrolling = LoadingScrolling,
              !.test_widget = IF found THEN "widget" ELSE "none",
              !.uiQueue = IF found THEN Append(@, LoadingRequest) ELSE @]

\* line 277: self.retry_timer.stop()
AfterRetryStop(s) == [s EXCEPT !.retry_timer = Stopped(@)]

\* lines 279-282: the FetchThread is created, connected and started
AfterWorkerStart(s) == [s EXCEPT !.workers = Append(@, NewWorker)]

\* the worker started before the placeholder and the timer are dealt with
WorkerStartedFirst(s, found) ==
    <<AfterWorkerStart(s),
      AfterShowLoading(AfterWorkerStart(s), found),
      AfterRetryStop(AfterShowLoading(AfterWorkerStart(s), found))>>

\* lines 276-282: the fields after each of the three statements, in program
\* order
update_songs_steps(s, found) ==
    <<AfterShowLoading(s, found),
      AfterRetryStop(AfterShowLoading(s, found)),
      AfterWorkerStart(AfterRetryStop(AfterShowLoading(s, found)))>>

\* lines 416-418: the host's first call
Execute ==
    /\ ~executed
    /\ executed' = TRUE
    /\ \E found \in BOOLEAN : update_songs(found)

\* update_timer.timeout (line 263)
UpdateTimerFires ==
    /\ update_timer.active
    /\ \E found \in BOOLEAN : update_songs(found)
    /\ UNCHANGED executed

\* retry_timer.timeout (line 259)
RetryTimerFires ==
    /\ retry_timer.active
    /\ \E found \in BOOLEAN : update_songs(found)
    /\ UNCHANGED executed

\* lines 284-288
handle_success(songs, display_date, w, found) ==
    /\ enable_scrolling' = SuccessScrolling(songs)
    /\ update_widget_content(Request(songs, FALSE, FALSE, display_date), found)
    /\ poller' = [state |-> "Displaying", by |-> w, entries |-> songs,
                  displayDate |-> display_date]
    /\ UNCHANGED <<now, workers, scroll_position, retry_timer, update_timer,
                   area, executed>>

\* lines 290-295
handle_failure(w, found) ==
    /\ enable_scrolling' = FailureScrolling
    /\ update_widget_content(ErrorRequest, found)
    /\ retry_timer' = Started(retry_timer, RetryIntervalMs)
    /\ poller' = [state |-> "Error", by |-> w, entries |-> <<>>,
                  displayDate |-> NoDate]
    /\ UNCHANGED <<now, workers, scroll_position, update_timer, area,
                   executed>>

\* the main thread takes the oldest queued signal and runs the slot
\* connected to it (lines 280-281)
DeliverSignal ==
    /\ sigQueue # <<>>
    /\ sigQueue' = Tail(sigQueue)
    /\ LET m == Head(sigQueue)
       IN  \E found \in BOOLEAN :
             IF m.sig = "fetch_finished"
             THEN handle_success(m.songs, m.date, m.from, found)
             ELSE handle_failure(m.from, found)

\* lines 307-334: the oldest pending _update_ui runs. It renders when
\* test_widget still is a widget and its contentLayout is found; otherwise
\* nothing is rendered. The layout gives the new scrollbar a maximum of M.
UpdateUI(M) ==
    /\ uiQueue # <<>>
    /\ uiQueue' = Tail(uiQueue)
    /\ \/ \E maximum \in M :
            /\ test_widget = "widget"
            /\ area' = create_scroll_area(Head(uiQueue),
                           WidgetTitle(Head(uiQueue).display_date), maximum)
       \/ UNCHANGED area
    /\ UNCHANGED <<fetchVars, scroll_position, enable_scrolling, retry_timer,
                   update_timer, test_widget, poller, executed>>

\* SmoothScrollBar.setValue (lines 103-112): nothing when the value is the
\* current one, else the animation restarts towards it
setValue(a, value) ==
    IF value = a.value THEN a
    ELSE [a EXCEPT !.aniEnd = value, !.aniRunning = TRUE]

\* a target that is not clamped to the range of the scrollbar
UnclampedTarget(value, delta, maximum) == (3 * value - delta) \div 3

\* lines 119-121: int(max(0, min(value - delta / 120 * 40, maximum))), that
\* is value - delta / 3 clamped to 0..maximum and then truncated
ScrollTarget(value, delta, maximum) ==
    IF 3 * value - delta <= 0 THEN 0
    ELSE IF 3 * value - delta >= 3 * maximum THEN maximum
    ELSE (3 * value - delta) \div 3

\* SmoothScrollBar.scrollValue (lines 117-121) on the mounted scroll area
scrollValue(delta) ==
    /\ area.present
    /\ area' = setValue(area, ScrollTarget(area.value, delta, area.maximum))
    /\ UNCHANGED <<fetchVars, scroll_position, enable_scrolling, retry_timer,
                   update_timer, test_widget, uiQueue, poller, executed>>

\* e.angleDelta().y() of a wheel event: a notch is 120, finer devices send
\* fractions of it
AngleDeltas == {-120, -15, -3, -1, 1, 3, 15, 120}

\* SmoothScrollArea.wheelEvent (lines 137-139)
wheelEvent == \E angle \in AngleDeltas : scrollValue(-angle)

\* a tick that wraps only when the position is exactly the maximum
NextPositionAtEndOnly(max_value, position) ==
    IF 0 < max_value /\ max_value = position THEN 0
    ELSE IF max_value = 0 THEN 0
    ELSE position + 1

\* a tick that wraps only once the position has passed the maximum
NextPositionPastEnd(max_value, position) ==
    IF 0 < max_value /\ max_value < position THEN 0
    ELSE IF max_value = 0 THEN 0
    ELSE position + 1

\* lines 405-412: the position after a tick that reaches the scroll logic
NextPosition(max_value, position) ==
    IF 0 < max_value /\ max_value <= position THEN 0
    ELSE IF max_value = 0 THEN 0
    ELSE position + 1

\* a tick that does not look at enable_scrolling
TickIgnoringFlag ==
    /\ IF test_widget = "none" \/ ~area.present
       THEN UNCHANGED <<scroll_position, area>>
       ELSE /\ scroll_position' = NextPosition(area.maximum, scroll_position)
            /\ area' = setValue(area, scroll_position')
    /\ UNCHANGED <<fetchVars, enable_scrolling, retry_timer, update_timer,
                   test_widget, uiQueue, poller, executed>>

\* lines 390-414: a tick of the 100 ms timer
auto_scroll ==
    /\ IF test_widget = "none" \/ ~enable_scrolling \/ ~area.present
       THEN UNCHANGED <<scroll_position, area>>
       ELSE /\ scroll_position' = NextPosition(area.maximum, scroll_position)
            /\ area' = setValue(area, scroll_position')
    /\ UNCHANGED <<fetchVars, enable_scrolling, retry_timer, update_timer,
                   test_widget, uiQueue, poller, executed>>

\* the QPropertyAnimation of the scrollbar (lines 95-99) moves the value
\* towards its end value and finishes there
AnimationStep ==
    /\ area.aniRunning
    /\ \E v \in 0..area.maximum :
          /\ \/ area.value <= v /\ v <= area.aniEnd
             \/ area.aniEnd <= v /\ v <= area.value
          /\ v # area.value
          /\ area' = [area EXCEPT !.value = v,
                                  !.aniRunning = (v # area.aniEnd)]
    /\ UNCHANGED <<fetchVars, scroll_position, enable_scrolling, retry_timer,
                   update_timer, test_widget, uiQueue, poller, executed>>

-----------------------------------------------------------------------------
(* Specifications.                                                          *)

\* Plugin.__init__ (lines 242-267): the timers, then show_loading
PluginInit ==
    /\ scroll_position = 0
    /\ enable_scrolling = FALSE
    /\ retry_timer = TimerOff
    /\ update_timer = Started(TimerOff, UpdateIntervalMs)
    /\ \E found \in BOOLEAN :
          /\ test_widget = IF found THEN "widget" ELSE "none"
          /\ uiQueue = IF found THEN <<LoadingRequest>> ELSE <<>>
          /\ poller = [state |-> "Loading", by |-> 0, entries |-> <<>>,
                       displayDate |-> NoDate]
    /\ area = NoArea
    /\ executed = FALSE

\* The fetch worker alone: the plugin was constructed and executed, its one
\* worker runs on any response and any reading of the clock.
FetchInit ==
    /\ now \in ClockReadings
    /\ workers = <<NewWorker>>
    /\ sigQueue = <<>>
    /\ scroll_position = 0
    /\ enable_scrolling = FALSE
    /\ retry_timer = TimerOff
    /\ update_timer = Started(TimerOff, UpdateIntervalMs)
    /\ test_widget = "widget"
    /\ uiQueue = <<LoadingRequest, LoadingRequest>>
    /\ poller = [state |-> "Loading", by |-> 0, entries |-> <<>>,
                 displayDate |-> NoDate]
    /\ area = NoArea
    /\ executed = TRUE

FetchNext ==
    \/ \E w \in DOMAIN workers : WorkerLoop(w)
    \/ \E w \in DOMAIN workers : WorkerAttempt(w, Responses)
    \/ \E w \in DOMAIN workers : WorkerExit(w)
    \/ ClockTick

SpecFetch == FetchInit /\ [][FetchNext]_vars

\* The responses the plugin as a whole is checked on, at a clock that reads
\* day 1 in UTC+8: a transport error, and two items of day 1 out of order
FullSong == [title |-> "T", artist |-> "A", requester |-> "R", voteCount |-> 5]
DayOneItem(n) == [playDate |-> IsoDate(1), sequence |-> n, song |-> FullSong]
PluginResponses ==
    {ErrorResponse("transport"),
     ListResponse(<<DayOneItem(2), DayOneItem(1)>>)}
PluginClock == CHOOSE t \in ClockReadings : \A u \in ClockReadings : t <= u

Init ==
    /\ now = PluginClock
    /\ workers = <<>>
    /\ sigQueue = <<>>
    /\ PluginInit

Next ==
    \/ Execute
    \/ UpdateTimerFires
    \/ RetryTimerFires
    \/ DeliverSignal
    \/ UpdateUI({MaxScroll})
    \/ \E w \in DOMAIN workers : WorkerLoop(w)
    \/ \E w \in DOMAIN workers : WorkerAttempt(w, PluginResponses)
    \/ \E w \in DOMAIN workers : WorkerExit(w)

Spec == Init /\ [][Next]_vars

\* The plugin under fair scheduling: a started timer fires, a queued signal
\* is delivered by the event loop, a started thread keeps running and every
\* request returns or raises. Nothing is assumed of the host's call of execute.
SpecLive ==
    /\ Init
    /\ [][Next]_vars
    /\ WF_vars(UpdateTimerFires)
    /\ WF_vars(RetryTimerFires)
    /\ WF_vars(DeliverSignal)
    /\ WF_vars(\E w \in DOMAIN workers : WorkerLoop(w))
    /\ WF_vars(\E w \in DOMAIN workers : WorkerAttempt(w, PluginResponses))
    /\ WF_vars(\E w \in DOMAIN workers : WorkerExit(w))

\* The auto-scroll tick alone: the plugin displays the songs of a finished
\* worker in a scroll area whose scrollbar has a constant maximum, and the
\* 100 ms timer and the animation of the scrollbar run.
DisplayedSongs == SortBySequence(<<DayOneItem(2), DayOneItem(1)>>)

ScrollInit ==
    /\ now = PluginClock
    /\ workers = <<[NewWorker EXCEPT !.pc = "finished",
                                     !.emitted = <<"fetch_finished">>]>>
    /\ sigQueue = <<>>
    /\ scroll_position = 0
    /\ enable_scrolling = TRUE
    /\ retry_timer = TimerOff
    /\ update_timer = Started(TimerOff, UpdateIntervalMs)
    /\ test_widget = "widget"
    /\ uiQueue = <<>>
    /\ poller = [state |-> "Displaying", by |-> 1, entries |-> DisplayedSongs,
                 displayDate |-> Today(PluginClock)]
    /\ \E maximum \in 0..MaxScrollLong :
          area = set_songs(DisplayedSongs, WidgetTitle(Today(PluginClock)),
                           maximum)
    /\ executed = TRUE

ScrollNext ==
    \/ auto_scroll
    \/ AnimationStep

SpecScroll == ScrollInit /\ [][ScrollNext]_vars

\* The wheel and the tick together: songs are displayed in a scroll area
\* whose scrollbar has a constant maximum; wheel events, the 100 ms timer and
\* the animation of the scrollbar run.
WheelInit ==
    /\ now = PluginClock
    /\ workers = <<[NewWorker EXCEPT !.pc = "finished",
                                     !.emitted = <<"fetch_finished">>]>>
    /\ sigQueue = <<>>
    /\ scroll_position = 0
    /\ enable_scrolling = TRUE
    /\ retry_timer = TimerOff
    /\ update_timer = Started(TimerOff, UpdateIntervalMs)
    /\ test_widget = "widget"
    /\ uiQueue = <<>>
    /\ poller = [state |-> "Displaying", by |-> 1, entries |-> DisplayedSongs,
                 displayDate |-> Today(PluginClock)]
    /\ \E maximum \in 0..MaxScrollWheel :
          area = set_songs(DisplayedSongs, WidgetTitle(Today(PluginClock)),
                           maximum)
    /\ executed = TRUE

WheelNext ==
    \/ wheelEvent
    \/ auto_scroll
    \/ AnimationStep

SpecWheel == WheelInit /\ [][WheelNext]_vars

\* The tick next to the fetch pipeline: execute and the timers call
\* update_songs, the slots handle_success and handle_failure are called with
\* a result, the pending renders give the scrollbar any maximum up to
\* MaxScroll, and the 100 ms timer and the animation of the scrollbar run.
\* A slot is called while at most MaxPending renders are pending.
TickSuccess ==
    /\ Len(uiQueue) < MaxPending
    /\ \E found \in BOOLEAN :
          handle_success(DisplayedSongs, Today(now), 0, found)
    /\ UNCHANGED sigQueue

TickFailure ==
    /\ Len(uiQueue) < MaxPending
    /\ \E found \in BOOLEAN : handle_failure(0, found)
    /\ UNCHANGED sigQueue

TickNext ==
    \/ Execute
    \/ UpdateTimerFires
    \/ RetryTimerFires
    \/ TickSuccess
    \/ TickFailure
    \/ UpdateUI(0..MaxScroll)
    \/ auto_scroll
    \/ AnimationStep

SpecTick == Init /\ [][TickNext]_vars

\* The success handler and the renderer alone: the slot handle_success is
\* called once on the constructed plugin with any list of songs, the empty
\* one included, and the pending renders run.
PartSong == [artist |-> "A"]
VotedSong == [requester |-> "R", voteCount |-> 9]
RenderItems ==
    {[playDate |-> IsoDate(1), sequence |-> 7, song |-> FullSong],
     [playDate |-> IsoDate(1), sequence |-> 3, song |-> PartSong],
     [playDate |-> IsoDate(1), sequence |-> 1],
     [playDate |-> IsoDate(1), song |-> VotedSong]}

CallHandleSuccess ==
    /\ poller.state = "Loading"
    /\ \E songs \in SeqsUpTo(RenderItems, MaxLen) :
       \E found \in BOOLEAN :
          handle_success(songs, Today(now), 0, found)
    /\ UNCHANGED sigQueue

RenderInit ==
    /\ now \in ClockReadings
    /\ workers = <<>>
    /\ sigQueue = <<>>
    /\ PluginInit

RenderNext ==
    \/ CallHandleSuccess
    \/ UpdateUI({0, MaxScroll})

SpecRender == RenderInit /\ [][RenderNext]_vars

\* One run of the fetch worker on a response of every kind (each way a
\* request raises, a body that is no list, the empty list, every single
\* item), under the assumption that every request returns or raises and that
\* a started thread keeps running
RunResponses ==
    ErrorResponses \cup {NotAList}
        \cup {ListResponse(b) : b \in SeqsUpTo(Items, 1)}

RunNext ==
    \/ \E w \in DOMAIN workers : WorkerLoop(w)
    \/ \E w \in DOMAIN workers : WorkerAttempt(w, RunResponses)
    \/ \E w \in DOMAIN workers : WorkerExit(w)
    \/ ClockTick

SpecRun ==
    /\ FetchInit
    /\ [][RunNext]_vars
    /\ WF_vars(\E w \in DOMAIN workers : WorkerLoop(w))
    /\ WF_vars(\E w \in DOMAIN workers : WorkerAttempt(w, RunResponses))
    /\ WF_vars(\E w \in DOMAIN workers : WorkerExit(w))

-----------------------------------------------------------------------------
(* What the properties below are stated in.                                 *)

\* the date written in the playDate of an item
ItemDate(item) == item.playDate.d

\* every item carries a playDate that is an ISO-8601 timestamp
WellFormed(body) ==
    \A i \in DOMAIN body :
        "playDate" \in DOMAIN body[i] /\ body[i].playDate.form = "iso"

\* the date, in UTC+8, of the hour t UTC
DateInUtc8(t) ==
    CHOOSE d \in 0..(t + 8) : 24 * d <= t + 8 /\ t + 8 < 24 * (d + 1)

ItemsDated(body, d) == SelectSeq(body, LAMBDA item : ItemDate(item) = d)

SequenceOrZero(x) == IF "sequence" \in DOMAIN x THEN x.sequence ELSE 0

NonDecreasing(songs) ==
    \A i, j \in DOMAIN songs :
        i < j => SequenceOrZero(songs[i]) <= SequenceOrZero(songs[j])

\* a worker whose run has an attempt in hand or just behind it
Attempted(wk) == wk.pc \in {"sleep", "done"}

\* the response of the attempt is a non-empty list of well-formed items
GoodList(wk) ==
    /\ Attempted(wk)
    /\ wk.resp.kind = "json"
    /\ wk.resp.isList
    /\ wk.resp.body # <<>>
    /\ WellFormed(wk.resp.body)

\* worker w has emitted fetch_finished(songs, date), which is queued
Finished(w, songs, date) ==
    /\ workers[w].pc = "done"
    /\ workers[w].emitted = <<"fetch_finished">>
    /\ \E k \in DOMAIN sigQueue :
          sigQueue[k] = Signal("fetch_finished", songs, date, w)

-----------------------------------------------------------------------------
(* The fetch worker (SpecFetch).                                            *)

\* C1: the songs of every emitted fetch_finished are in non-decreasing order
\* of their sequence, an item without a sequence counting as 0, whichever
\* branch (today or nearest future date) emitted them.
C1_EmittedSongsSorted ==
    \A k \in DOMAIN sigQueue :
        sigQueue[k].sig = "fetch_finished" => NonDecreasing(sigQueue[k].songs)

\* three songs of the nearest future date, received out of order, one of them
\* without a sequence, have been emitted in the order 0, 1, 2
C1_Witness ==
    \E k \in DOMAIN sigQueue :
        LET m == sigQueue[k]
            wk == workers[m.from]
        IN  /\ m.sig = "fetch_finished"
            /\ wk.pc = "done"
            /\ m.date > wk.today
            /\ Len(m.songs) = 3
            /\ [i \in 1..3 |-> SequenceOrZero(m.songs[i])] = <<0, 1, 2>>
            /\ "sequence" \notin DOMAIN m.songs[1]
            /\ ~NonDecreasing(wk.resp.body)

\* C2: a non-empty list of well-formed items with an item dated today (UTC+8)
\* makes the worker emit fetch_finished with today as the date and with
\* exactly the items dated today.
C2_TodayBranch ==
    \A w \in DOMAIN workers :
        LET wk == workers[w]
            today == DateInUtc8(wk.clock)
        IN  (GoodList(wk)
                /\ \E i \in DOMAIN wk.resp.body :
                       ItemDate(wk.resp.body[i]) = today)
            => \E songs \in {sigQueue[k].songs : k \in DOMAIN sigQueue} :
                  /\ Finished(w, songs, today)
                  /\ SameItems(songs, ItemsDated(wk.resp.body, today))

\* at 17:00 UTC of day 1, which is day 2 in UTC+8, a list with a past item,
\* an item of day 2 and a future item has been answered with the item of day 2
C2_Witness ==
    \E w \in DOMAIN workers :
        LET wk == workers[w]
        IN  /\ GoodList(wk)
            /\ wk.clock = 41
            /\ Len(wk.resp.body) = 3
            /\ \E i, j, k \in DOMAIN wk.resp.body :
                  /\ ItemDate(wk.resp.body[i]) < 2
                  /\ ItemDate(wk.resp.body[j]) = 2
                  /\ ItemDate(wk.resp.body[k]) > 2
            /\ \E songs \in {sigQueue[k].songs : k \in DOMAIN sigQueue} :
                  Finished(w, songs, 2) /\ Len(songs) = 1

\* C3: a non-empty list of well-formed items with no item dated today and
\* some item dated after today makes the worker emit fetch_finished with the
\* earliest date after today and exactly the items of that date.
C3_NearestFutureBranch ==
    \A w \in DOMAIN workers :
        LET wk == workers[w]
            today == DateInUtc8(wk.clock)
            body == wk.resp.body
        IN  (GoodList(wk)
                /\ (\A i \in DOMAIN body : ItemDate(body[i]) # today)
                /\ (\E i \in DOMAIN body : ItemDate(body[i]) > today))
            => \E d \in {ItemDate(body[i]) : i \in DOMAIN body} :
                  /\ d > today
                  /\ \A i \in DOMAIN body :
                        ItemDate(body[i]) > today => d <= ItemDate(body[i])
                  /\ \E songs \in {sigQueue[k].songs : k \in DOMAIN sigQueue} :
                        /\ Finished(w, songs, d)
                        /\ SameItems(songs, ItemsDated(body, d))

\* on day 1 a list with an item of day 3, an item of day 2 and a past item,
\* in this order, has been answered with the item of day 2
C3_Witness ==
    \E w \in DOMAIN workers :
        LET wk == workers[w]
            body == wk.resp.body
        IN  /\ GoodList(wk)
            /\ wk.today = 1
            /\ Len(body) = 3
            /\ ItemDate(body[1]) = 3
            /\ ItemDate(body[2]) = 2
            /\ ItemDate(body[3]) = 0
            /\ Finished(w, <<body[2]>>, 2)

\* the response of the attempt is no list, an empty list, or a list of
\* well-formed items all dated before today
NothingToShow(wk) ==
    /\ Attempted(wk)
    /\ wk.resp.kind = "json"
    /\ \/ ~wk.resp.isList
       \/ wk.resp.body = <<>>
       \/ /\ WellFormed(wk.resp.body)
          /\ \A i \in DOMAIN wk.resp.body :
                ItemDate(wk.resp.body[i]) < DateInUtc8(wk.clock)

\* C4: an attempt whose response is no list, empty, or holds only items
\* dated before today emits nothing and is logged as fallen through; a run of
\* three such attempts ends with fetch_failed, emitted only after the third
\* attempt, and without any fetch_finished; and no emitted fetch_finished
\* carries a date before the today of its attempt.
C4_NothingToShowFails ==
    /\ \A w \in DOMAIN workers :
          LET wk == workers[w]
          IN  /\ NothingToShow(wk)
                     => /\ wk.hist[Len(wk.hist)] = "none"
                        /\ "fetch_finished" \notin Range(wk.emitted)
              /\ (Len(wk.hist) = 3 /\ Range(wk.hist) = {"none"})
                     => \/ wk.pc = "sleep" /\ wk.emitted = <<>>
                        \/ /\ wk.pc = "done"
                           /\ wk.emitted = <<"fetch_failed">>
                           /\ \E k \in DOMAIN sigQueue :
                                 sigQueue[k] =
                                     Signal("fetch_failed", NoSongs, NoDate, w)
              /\ ("fetch_failed" \in Range(wk.emitted) /\ wk.pc = "done")
                     => Len(wk.hist) = 3
    /\ \A k \in DOMAIN sigQueue :
          (sigQueue[k].sig = "fetch_finished"
              /\ workers[sigQueue[k].from].pc = "done")
          => sigQueue[k].date >= DateInUtc8(workers[sigQueue[k].from].clock)

\* three attempts fell through, the last on a list of two past items, and
\* fetch_failed is queued
C4_Witness ==
    \E w \in DOMAIN workers :
        LET wk == workers[w]
        IN  /\ NothingToShow(wk)
            /\ Len(wk.resp.body) = 2
            /\ wk.hist = <<"none", "none", "none">>
            /\ wk.pc = "done"
            /\ sigQueue = <<Signal("fetch_failed", NoSongs, NoDate, w)>>

\* C10 (what holds at every moment of a run): at most 3 requests are issued,
\* at most one signal is emitted, it is emitted exactly when run ends, and no
\* request follows it.
C10_AtMostOneResult ==
    \A w \in DOMAIN workers :
        LET wk == workers[w]
        IN  /\ Len(wk.hist) <= 3
            /\ wk.retry_count <= 3
            /\ Len(wk.emitted) <= 1
            /\ Len(wk.emitted) = 1 <=> wk.pc \in {"done", "finished"}
            /\ Cardinality({k \in DOMAIN sigQueue : sigQueue[k].from = w})
                   = Len(wk.emitted)
            /\ (wk.pc = "done" /\ wk.emitted = <<"fetch_finished">>)
                   => wk.hist[Len(wk.hist)] = "emit"

\* C10: every run of the fetch worker ends, having issued at most 3 requests
\* and emitted exactly one of fetch_finished and fetch_failed.
C10_RunDeliversOneResult ==
    /\ []C10_AtMostOneResult
    /\ <>(\A w \in DOMAIN workers :
             workers[w].pc = "finished" /\ Len(workers[w].emitted) = 1)

\* a run has ended with fetch_finished on its third request
C10_Witness ==
    \E w \in DOMAIN workers :
        /\ workers[w].pc = "done"
        /\ Len(workers[w].hist) = 3
        /\ workers[w].emitted = <<"fetch_finished">>

-----------------------------------------------------------------------------
(* The plugin with its workers (Spec).                                      *)

\* all three attempts of worker w raised a transport error
FailedOnTransport(w) ==
    /\ workers[w].pc = "done"
    /\ workers[w].hist = <<"transport", "transport", "transport">>

\* the main thread runs handle_failure on a queued fetch_failed
DeliversFailure ==
    /\ sigQueue # <<>>
    /\ Head(sigQueue).sig = "fetch_failed"
    /\ sigQueue' = Tail(sigQueue)

\* the error state handle_failure leaves: scrolling off, retry in 300 s
ErrorState ==
    /\ poller.state = "Error"
    /\ ~enable_scrolling
    /\ retry_timer = [active |-> TRUE, interval |-> 300000]

\* C5 as stated: handling the fetch_failed of a worker whose three attempts
\* raised transport errors always pushes the error placeholder to the
\* renderer, disables scrolling and arms the retry timer with 300 s.
C5_ErrorPlaceholderAlwaysPushed ==
    [][DeliversFailure =>
          /\ ErrorState'
          /\ uiQueue' = Append(uiQueue, ErrorRequest)]_vars

\* C5: a worker whose three attempts raised transport errors emits
\* fetch_failed; handling it puts the poller in the error state with
\* enable_scrolling false and the retry timer armed with 300 s, and pushes
\* the error placeholder to the renderer when get_widget finds the widget;
\* when it does not, nothing is pushed.
C5_ErrorStateAfterTransportErrors ==
    /\ [](\A w \in DOMAIN workers :
             FailedOnTransport(w)
             => /\ workers[w].emitted = <<"fetch_failed">>
                /\ poller.by = w => ErrorState)
    /\ [][DeliversFailure =>
             /\ ErrorState'
             /\ poller'.by = Head(sigQueue).from
             /\ uiQueue' = IF test_widget' = "widget"
                           THEN Append(uiQueue, ErrorRequest)
                           ELSE uiQueue]_vars

\* the poller handled the failure of a worker whose three attempts raised
\* transport errors, and the error placeholder has been rendered
C5_Witness ==
    \E w \in DOMAIN workers :
        /\ FailedOnTransport(w)
        /\ poller.by = w
        /\ ErrorState
        /\ test_widget = "widget"
        /\ uiQueue = <<>>
        /\ area.present
        /\ area.songs = error_songs

\* C6: enable_scrolling is true exactly when the poller displays a non-empty
\* list of entries; it is false while loading and in the error state.
C6_ScrollingIffDisplayingEntries ==
    /\ enable_scrolling <=> (poller.state = "Displaying" /\ poller.entries # <<>>)
    /\ \A k \in DOMAIN sigQueue :
          sigQueue[k].sig = "fetch_finished" => sigQueue[k].songs # <<>>

\* a result is displayed with scrolling on although the lookup of the mount
\* point failed, while a later worker is still running
C6_Witness ==
    /\ poller.state = "Displaying"
    /\ Len(poller.entries) = 2
    /\ enable_scrolling
    /\ test_widget = "none"
    /\ \E w \in DOMAIN workers : workers[w].pc = "request"

-----------------------------------------------------------------------------
(* The success handler and the renderer (SpecRender).                       *)

\* C7 as stated: after handle_success with an empty list of entries,
\* scrolling is disabled and the rendered area shows the placeholder.
C7_EmptySuccessDisablesScrolling ==
    (poller.state = "Displaying" /\ poller.entries = <<>>)
    => /\ ~enable_scrolling
       /\ (area.present /\ uiQueue = <<>>)
              => (area.no_songs_label /\ area.rows = <<>>)

FieldOr(entry, key, default) ==
    IF "song" \in DOMAIN entry /\ key \in DOMAIN entry.song
    THEN entry.song[key]
    ELSE default

\* "{n}. {artist} - {title} - {requester} - heat:{voteCount}" with the
\* defaults for missing fields
RowText(n, entry) ==
    ToString(n) \o ". " \o FieldOr(entry, "artist", "unknown-artist")
        \o " - " \o FieldOr(entry, "title", "unknown-title")
        \o " - " \o FieldOr(entry, "requester", "unknown")
        \o " - heat:" \o ToString(FieldOr(entry, "voteCount", 0))

\* C9 as stated: one row per entry, in order, where the leading number of a
\* row is the sequence field of its entry (for entries that have one, in a
\* list sorted by sequence as the worker emits it).
C9_RowsNumberedBySequence ==
    (area.present /\ NonDecreasing(area.songs))
    => /\ Len(area.rows) = Len(area.songs)
       /\ \A i \in DOMAIN area.songs :
             "sequence" \in DOMAIN area.songs[i]
             => area.rows[i] = RowText(area.songs[i].sequence, area.songs[i])

\* C9: the rendered area has one row per entry, in the order of the entries;
\* the text of the i-th row is "{i}. {artist} - {title} - {requester} -
\* heat:{voteCount}", where the leading number is the 1-based position of the
\* entry in the list, and missing fields are replaced by the defaults.
C9_RowsNumberedByPosition ==
    area.present
    => /\ Len(area.rows) = Len(area.songs)
       /\ \A i \in DOMAIN area.songs :
             area.rows[i] = RowText(i, area.songs[i])

\* three entries with sequences 3, 7 and none are rendered as rows 1, 2, 3,
\* with the defaults where fields are missing
C9_Witness ==
    /\ area.present
    /\ Len(area.songs) = 3
    /\ SequenceOrZero(area.songs[1]) = 3
    /\ SequenceOrZero(area.songs[2]) = 7
    /\ "sequence" \notin DOMAIN area.songs[3]
    /\ area.rows = <<"1. A - unknown-title - unknown - heat:0",
                     "2. A - T - R - heat:5",
                     "3. unknown-artist - unknown-title - R - heat:9">>

-----------------------------------------------------------------------------
(* The auto-scroll tick (SpecScroll).                                       *)

\* C8: with scrolling enabled and a scroll area mounted, a tick leaves
\* scroll_position at 0 when the maximum of the scrollbar is 0; when the
\* maximum is M > 0, scroll_position stays within 0..M, a tick at a position
\* below M advances it by exactly 1 and a tick at M resets it to 0, so M + 1
\* ticks from 0 lead back to 0.
C8_TickAdvancesThenWraps ==
    /\ [](scroll_position \in 0..area.maximum)
    /\ [][(auto_scroll /\ enable_scrolling /\ test_widget = "widget"
              /\ area.present)
          => scroll_position' =
                 IF area.maximum = 0 THEN 0
                 ELSE IF scroll_position = area.maximum THEN 0
                 ELSE scroll_position + 1]_vars

\* with a maximum of 50 the scrollbar was driven to 50 and the next tick has
\* reset scroll_position to 0
C8_Witness ==
    /\ area.maximum = 50
    /\ area.value = 50
    /\ scroll_position = 0
    /\ area.aniEnd = 0
    /\ area.aniRunning

-----------------------------------------------------------------------------
(* The fetch worker on malformed items (SpecFetch).                         *)

\* the response of the attempt is a non-empty list in which some item has no
\* playDate or a playDate that is no ISO-8601 timestamp
HasMalformedItem(wk) ==
    /\ Attempted(wk)
    /\ wk.resp.kind = "json"
    /\ wk.resp.isList
    /\ wk.resp.body # <<>>
    /\ ~WellFormed(wk.resp.body)

\* C16: an attempt on a list with a malformed or missing playDate emits
\* nothing, whatever the dates of the other items, is logged as a parse error
\* and counted as one attempt; the worker goes on: to the next request while
\* fewer than 3 attempts are counted, to fetch_failed otherwise.
C16_MalformedItemFailsAttempt ==
    /\ [](\A w \in DOMAIN workers :
             LET wk == workers[w]
             IN  HasMalformedItem(wk)
                 => /\ wk.hist[Len(wk.hist)] = "parse"
                    /\ "fetch_finished" \notin Range(wk.emitted)
                    /\ wk.retry_count = Len(wk.hist)
                    /\ wk.pc = "done" => /\ wk.retry_count = 3
                                         /\ wk.emitted = <<"fetch_failed">>)
    /\ [][\A w \in DOMAIN workers :
             (HasMalformedItem(workers[w]) /\ workers[w].pc = "sleep"
                 /\ workers'[w] # workers[w])
             => workers'[w].pc = IF workers[w].retry_count < 3
                                 THEN "request" ELSE "done"]_vars

\* the first attempt met an item of today, a future item and an item whose
\* playDate is no timestamp; it was counted and nothing was emitted
C16_Witness ==
    \E w \in DOMAIN workers :
        LET wk == workers[w]
            body == wk.resp.body
        IN  /\ HasMalformedItem(wk)
            /\ wk.pc = "sleep"
            /\ wk.retry_count = 1
            /\ wk.hist = <<"parse">>
            /\ Len(body) = 3
            /\ \A i \in DOMAIN body : "playDate" \in DOMAIN body[i]
            /\ body[1].playDate = IsoDate(wk.today)
            /\ body[2].playDate = IsoDate(wk.today + 1)
            /\ body[3].playDate.form = "bad"
            /\ sigQueue = <<>>

-----------------------------------------------------------------------------
(* Overlapping poll cycles (Spec).                                          *)

\* the started workers whose run has not emitted its signal yet
InFlight == {w \in DOMAIN workers : workers[w].pc \in {"start", "request", "sleep"}}

\* C12 as stated: at most one started fetch worker has not delivered its
\* result yet.
C12_AtMostOneWorkerInFlight == Cardinality(InFlight) <= 1

\* the main thread runs the slot of a signal whose worker is not the one
\* started last
DeliversStale ==
    /\ sigQueue # <<>>
    /\ sigQueue' = Tail(sigQueue)
    /\ Head(sigQueue).from < Len(workers)

\* C13 as stated: the result of a worker superseded by a newer poll cycle is
\* discarded; it changes neither the poller state, nor the content pushed to
\* the renderer, nor enable_scrolling, nor the retry timer.
C13_StaleResultDiscarded ==
    [][DeliversStale =>
          UNCHANGED <<poller, uiQueue, enable_scrolling, retry_timer>>]_vars

\* C15 as stated: the retry timer is active only while the poller is in the
\* error state.
C15_RetryTimerOnlyInError == retry_timer.active => poller.state = "Error"

-----------------------------------------------------------------------------
(* Lookups of the mount point that fail (Spec).                             *)

\* update_songs runs: a worker is started
StartsWorker == Len(workers') = Len(workers) + 1

\* the main thread runs the slot of the oldest queued signal
Delivers == sigQueue # <<>> /\ sigQueue' = Tail(sigQueue)

\* the oldest pending _update_ui runs
RunsUpdateUI == uiQueue # <<>> /\ uiQueue' = Tail(uiQueue)

\* C17: an update (update_songs, handle_success, handle_failure) during which
\* get_widget returns no handle schedules no render and changes neither the
\* mounted content nor the title, while the poll cycle goes on: update_songs
\* still starts its worker with the retry timer stopped, handle_failure still
\* arms the retry timer with 300 s; a pending render that finds no widget
\* renders nothing; and the next update looks the widget up again, scheduling
\* its render when the lookup succeeds.
C17_FailedLookupSkipsRenderOnly ==
    /\ [][((StartsWorker \/ Delivers) /\ test_widget' = "none")
          => /\ uiQueue' = uiQueue
             /\ area' = area
             /\ StartsWorker
                   => /\ workers' = Append(workers, NewWorker)
                      /\ ~retry_timer'.active
                      /\ ~enable_scrolling'
             /\ (Delivers /\ Head(sigQueue).sig = "fetch_failed")
                   => /\ retry_timer' = [active |-> TRUE, interval |-> 300000]
                      /\ ~enable_scrolling']_vars
    /\ [][(RunsUpdateUI /\ test_widget = "none") => area' = area]_vars
    /\ [][((StartsWorker \/ Delivers) /\ test_widget = "none"
              /\ test_widget' = "widget")
          => Len(uiQueue') = Len(uiQueue) + 1]_vars

\* every lookup so far failed: nothing was ever scheduled or rendered, yet
\* the worker was started, its failure handled and the retry timer armed
C17_Witness ==
    /\ test_widget = "none"
    /\ uiQueue = <<>>
    /\ area = NoArea
    /\ Len(workers) = 1
    /\ poller.state = "Error"
    /\ poller.by = 1
    /\ retry_timer = [active |-> TRUE, interval |-> 300000]

-----------------------------------------------------------------------------
(* Progress of the poller (SpecLive).                                       *)

\* C11: under fair firing of the timers, with every request returning or
\* raising, a poller that is loading eventually displays a result or is in
\* the error state; a poller in the error state eventually starts a new poll
\* (as long as the model may start another worker); and at every moment the
\* periodic timer is running and, in the error state, the retry timer too.
C11_PollerMakesProgress ==
    /\ [](update_timer.active /\ (poller.state = "Error" => retry_timer.active))
    /\ (poller.state = "Loading") ~> (poller.state \in {"Displaying", "Error"})
    /\ (poller.state = "Error" /\ Len(workers) < MaxWorkers)
           ~> (poller.state = "Loading")

\* after a failed poll the retry timer has started a second poll, which is
\* loading
C11_Witness ==
    /\ Len(workers) = 2
    /\ workers[1].emitted = <<"fetch_failed">>
    /\ workers[2].pc = "request"
    /\ poller.state = "Loading"
    /\ ~retry_timer.active
    /\ retry_timer.interval = 300000

-----------------------------------------------------------------------------
(* The start of a poll (Spec).                                              *)

-----------------------------------------------------------------------------
(* The manual scroll (SpecWheel).                                           *)

\* C18: whatever the value of the scrollbar within 0..maximum and whatever
\* the delta, the target a manual scroll requests lies within 0..maximum, and
\* the manual scroll changes neither enable_scrolling nor scroll_position.
C18_ManualScrollStaysInRange ==
    /\ [](area.value \in 0..area.maximum /\ area.aniEnd \in 0..area.maximum)
    /\ [][wheelEvent =>
             /\ area'.aniEnd \in 0..area.maximum
             /\ area'.maximum = area.maximum
             /\ enable_scrolling' = enable_scrolling
             /\ scroll_position' = scroll_position]_vars

\* with the scrollbar at 2 of 6 and the tick counter at 3, a wheel event has
\* requested 5 while scrolling stays enabled and the counter stays at 3
C18_Witness ==
    /\ area.maximum = 6
    /\ area.value = 2
    /\ area.aniEnd = 5
    /\ area.aniRunning
    /\ scroll_position = 3
    /\ enable_scrolling

-----------------------------------------------------------------------------
(* The tick next to the fetch pipeline (SpecTick).                          *)

\* the tick gets past its guards: a widget is there, scrolling is enabled
\* and a scroll area is mounted
TickEnabled == enable_scrolling /\ test_widget = "widget" /\ area.present

\* C19: a tick while scrolling is disabled or no widget is there leaves
\* scroll_position and the scrollbar as they are (while disabled the
\* scrollbar changes only by a render or by an animation still running); no
\* operation of the fetch pipeline writes scroll_position; the only step that
\* changes it is an enabled tick, which changes nothing of the pipeline.
C19_OnlyEnabledTickMovesPosition ==
    /\ [][~(enable_scrolling /\ test_widget = "widget")
             => /\ scroll_position' = scroll_position
                /\ (uiQueue' = uiQueue /\ ~area.aniRunning) => area' = area]_vars
    /\ [][(Execute \/ UpdateTimerFires \/ RetryTimerFires \/ TickSuccess
              \/ TickFailure \/ UpdateUI(0..MaxScroll))
             => scroll_position' = scroll_position]_vars
    /\ [][scroll_position' # scroll_position
             => /\ TickEnabled
                /\ UNCHANGED <<workers, sigQueue, enable_scrolling,
                               retry_timer, update_timer, test_widget,
                               uiQueue, poller, executed>>]_vars

\* the tick counter stands at 2 after a new poll has disabled scrolling and
\* its loading placeholder, which needs no scrolling, has been rendered
C19_Witness ==
    /\ scroll_position = 2
    /\ ~enable_scrolling
    /\ poller.state = "Loading"
    /\ Len(workers) = 2
    /\ area.present
    /\ area.songs = loading_songs
    /\ area.maximum = 0
    /\ area.value = 0

\* C20: right after every enabled tick scroll_position lies within 0 and the
\* maximum of the scrollbar the tick read, also when a render has changed the
\* maximum since the last tick: a position at or above the maximum is reset
\* to 0, never advanced.
C20_PositionWithinMaximumAfterTick ==
    [][((auto_scroll /\ TickEnabled) \/ scroll_position' # scroll_position)
          => /\ scroll_position' \in 0..area.maximum
             /\ scroll_position >= area.maximum => scroll_position' = 0]_vars

\* an enabled tick is due with scroll_position left at 2 by the previous
\* content and a scrollbar whose maximum the new content has shrunk to 1
C20_Witness ==
    /\ TickEnabled
    /\ poller.state = "Displaying"
    /\ area.songs = DisplayedSongs
    /\ area.maximum = 1
    /\ scroll_position = 2

====
